---- MODULE Spec2Model ----
(***************************************************************************)
(* Model of the OPTA ERP backend (opta-erp/backend/app): the catalog       *)
(* handlers of api/inventory.py and the sale handlers of api/sales.py,     *)
(* run against the committed contents of the relational store.             *)
(*                                                                         *)
(* A request runs in a slot.  A handler with a single commit is one        *)
(* action.  create_product (two commits) and create_sale (a commit of the  *)
(* header, the item loop, the final commit) advance one step per action,   *)
(* so that other requests can run between their commits.  A create_sale    *)
(* request keeps its SQLAlchemy session (the rows it changed, the rows it  *)
(* added) in its slot until a commit writes them to the store.             *)
(***************************************************************************)
EXTENDS Integers, Sequences, FiniteSets

\* ------------------------------------------------------------------ bounds
MaxSlots == 2
MaxCategories == 2
MaxProducts == 2
MaxInventoryRows == 3
MaxSales == 2
MaxItems == 2
MaxDays == 3
TicksPerDay == 2

\* --------------------------------------------------------- program constants
LowStockThreshold == 5

IN_STOCK == "in_stock"
LOW_STOCK == "low_stock"
OUT_OF_STOCK == "out_of_stock"
StockStatus == {IN_STOCK, LOW_STOCK, OUT_OF_STOCK}

\* api/sales.py imports Product and InventoryItem from models.inventory and never
\* imports StockStatus: evaluating the name at lines 70 and 72 raises NameError.
StockStatusImported == FALSE

\* Whether the store rejects a write that breaks a declared constraint (a
\* foreign key, a column that is not nullable) is a property of the deployment:
\* both outcomes are modelled.
Enforcement == BOOLEAN

VARIABLES
    categories,   \* table categories: id -> [name, description]
    products,     \* table products: id -> [category_id, name]
    inventory,    \* table inventory: id -> [product_id, quantity, status]
    sales,        \* table sales: the ids of the committed sale headers
    created_at,   \* column sales.created_at: sale id -> timestamp
    sale_items,   \* table sale_items: sequence of [sale_id, product_id, quantity]
    ids,          \* the autoincrement counters of products, inventory and sales
    req,          \* slot -> the request in flight in it
    resp,         \* the response to the last request that finished
    now           \* the clock of the store, in ticks since day 0

vars == <<categories, products, inventory, sales, created_at, sale_items, ids,
          req, resp, now>>

Slots == 1..MaxSlots

\* ----------------------------------------------------------------- helpers
Put(f, k, v) == [x \in DOMAIN f \cup {k} |-> IF x = k THEN v ELSE f[x]]

Drop(f, K) == [x \in DOMAIN f \ K |-> f[x]]

Empty == [x \in {} |-> 0]

IdleReq ==
    [pc |-> "idle", op |-> "none", id |-> 0, items |-> <<>>, i |-> 0,
     session |-> Empty, pending |-> <<>>]

\* A response carries, besides the outcome, what the properties below read: the
\* payload of the request (the line items of a sale, the product of a
\* create_product, the fields of an update) and, for a sale, the item check
\* that failed, its position in the request (the product the error names) and
\* the inventory rows the request read and wrote.
SaleResponse(op, outcome, id, items, failed, wrote) ==
    [op |-> op, outcome |-> outcome, id |-> id, items |-> items, failed |-> failed,
     wrote |-> wrote]

Response(op, outcome, id) == SaleResponse(op, outcome, id, <<>>, "none", Empty)

PayloadResponse(op, outcome, id, payload) ==
    SaleResponse(op, outcome, id, <<payload>>, "none", Empty)

NoResponse == Response("none", "none", 0)

Idle(s) == req[s].pc = "idle"

\* A new request takes the first free slot (the slots are interchangeable).
Free(s) == Idle(s) /\ \A t \in 1..(s - 1) : ~Idle(t)

\* The request in slot s ends with response r.
Finish(s, r) ==
    /\ req' = [req EXCEPT ![s] = IdleReq]
    /\ resp' = r

\* ------------------------------------------------------------------- Init
Init ==
    /\ categories = Empty
    /\ products = Empty
    /\ inventory = Empty
    /\ sales = {}
    /\ created_at = Empty
    /\ sale_items = <<>>
    /\ ids = [product |-> 1, inventory |-> 1, sale |-> 1]
    /\ req = [s \in Slots |-> IdleReq]
    /\ resp = NoResponse
    /\ now = 0

\* ------------------------------------------------------- category handlers
NameTaken(name, except) ==
    \E c \in DOMAIN categories \ except : categories[c].name = name

\* POST /inventory/categories.  categories.name is unique: a duplicate is rejected
\* by the store and the request ends with a server error.
create_category(s, name, description) ==
    /\ Free(s)
    /\ Cardinality(DOMAIN categories) < MaxCategories
    /\ LET id == Cardinality(DOMAIN categories) + 1 IN
       IF NameTaken(name, {})
       THEN /\ Finish(s, Response("create_category", "ServerError", 0))
            /\ UNCHANGED categories
       ELSE /\ categories' = Put(categories, id, [name |-> name, description |-> description])
            /\ Finish(s, Response("create_category", "ok", id))
    /\ UNCHANGED <<products, inventory, sales, created_at, sale_items, ids, now>>

\* Mutant of ApplyUpdate: the changes are made to a copy and never saved.
ApplyUpdateToCopy(row, update) == row

\* dict(exclude_unset=True) followed by setattr of each key: the fields of the
\* request are written, the others are kept.
ApplyUpdate(row, update) ==
    [f \in DOMAIN row |-> IF f \in update.fields THEN update[f] ELSE row[f]]

\* PUT /inventory/categories/{category_id}
update_category(s, category_id, update) ==
    /\ Free(s)
    /\ IF category_id \notin DOMAIN categories
       THEN /\ Finish(s, PayloadResponse("update_category", "NotFound", category_id, update))
            /\ UNCHANGED categories
       ELSE IF "name" \in update.fields /\ NameTaken(update.name, {category_id})
       THEN /\ Finish(s, PayloadResponse("update_category", "ServerError", category_id, update))
            /\ UNCHANGED categories
       ELSE /\ categories' = [categories EXCEPT
                                 ![category_id] = ApplyUpdate(@, update)]
            /\ Finish(s, PayloadResponse("update_category", "ok", category_id, update))
    /\ UNCHANGED <<products, inventory, sales, created_at, sale_items, ids, now>>

\* -------------------------------------------------------- product handlers
\* Mutant of CategoryExists: the category is never looked up.
CategoryUnchecked(category_id) == TRUE

\* db.query(Category).filter(Category.id == category_id).first() finds a row.
CategoryExists(category_id) == category_id \in DOMAIN categories

InFlightCreateProduct == Cardinality({t \in Slots : req[t].pc = "cp_inventory"})

\* Every create_product in flight still inserts one inventory row.
InventoryIdFree == ids.inventory + InFlightCreateProduct <= MaxInventoryRows

RowsOf(product_id) == {r \in DOMAIN inventory : inventory[r].product_id = product_id}

\* POST /inventory/products, lines 75-83: the category check, then the product
\* row is added and committed.
create_product_begin(s, product) ==
    /\ Free(s)
    /\ IF ~CategoryExists(product.category_id)
       THEN /\ Finish(s, PayloadResponse("create_product", "NotFound", 0, product))
            /\ UNCHANGED <<products, ids>>
       ELSE /\ ids.product <= MaxProducts
            /\ InventoryIdFree
            /\ products' = Put(products, ids.product, product)
            /\ ids' = [ids EXCEPT !.product = @ + 1]
            /\ req' = [req EXCEPT ![s] = [IdleReq EXCEPT !.pc = "cp_inventory",
                                             !.op = "create_product",
                                             !.id = ids.product]]
            /\ resp' = NoResponse
    /\ UNCHANGED <<categories, inventory, sales, created_at, sale_items, now>>

\* Mutant of InitialInventoryItem: the row keeps the column default of status.
InitialInventoryItemDefault(product_id) ==
    [product_id |-> product_id, quantity |-> 0, status |-> IN_STOCK]

\* The row of line 86.
InitialInventoryItem(product_id) ==
    [product_id |-> product_id, quantity |-> 0, status |-> OUT_OF_STOCK]

\* POST /inventory/products, lines 85-90: the zero-quantity inventory row is
\* added and committed.  inventory.product_id references products.id: when the
\* product was deleted meanwhile, an enforcing store rejects the row.
create_product_inventory(s) ==
    /\ req[s].pc = "cp_inventory"
    /\ \E enforced \in Enforcement :
       IF enforced /\ req[s].id \notin DOMAIN products
       THEN /\ Finish(s, Response("create_product", "ServerError", req[s].id))
            /\ UNCHANGED <<inventory, ids>>
       ELSE /\ inventory' = Put(inventory, ids.inventory, InitialInventoryItem(req[s].id))
            /\ ids' = [ids EXCEPT !.inventory = @ + 1]
            /\ Finish(s, Response("create_product", "ok", req[s].id))
    /\ UNCHANGED <<categories, products, sales, created_at, sale_items, now>>

\* PUT /inventory/products/{product_id}
update_product(s, product_id, update) ==
    /\ Free(s)
    /\ IF product_id \notin DOMAIN products
       THEN /\ Finish(s, PayloadResponse("update_product", "NotFound", product_id, update))
            /\ UNCHANGED products
       ELSE IF "category_id" \in update.fields /\ ~CategoryExists(update.category_id)
       THEN /\ Finish(s, PayloadResponse("update_product", "NotFound", product_id, update))
            /\ UNCHANGED products
       ELSE /\ products' = [products EXCEPT ![product_id] = ApplyUpdate(@, update)]
            /\ Finish(s, PayloadResponse("update_product", "ok", product_id, update))
    /\ UNCHANGED <<categories, inventory, sales, created_at, sale_items, ids, now>>

Sold(product_id) == \E k \in 1..Len(sale_items) : sale_items[k].product_id = product_id

\* DELETE /inventory/products/{product_id}: the inventory rows of the product
\* are deleted, then the product.  sale_items.product_id references products.id:
\* an enforcing store rejects the delete of a product that was sold.
delete_product(s, product_id) ==
    /\ Free(s)
    /\ IF product_id \notin DOMAIN products
       THEN /\ Finish(s, Response("delete_product", "NotFound", product_id))
            /\ UNCHANGED <<products, inventory>>
       ELSE \E enforced \in Enforcement :
            IF enforced /\ Sold(product_id)
       THEN /\ Finish(s, Response("delete_product", "ServerError", product_id))
            /\ UNCHANGED <<products, inventory>>
       ELSE /\ inventory' = Drop(inventory, RowsOf(product_id))
            /\ products' = Drop(products, {product_id})
            /\ Finish(s, Response("delete_product", "ok", product_id))
    /\ UNCHANGED <<categories, sales, created_at, sale_items, ids, now>>

\* ------------------------------------------------------ inventory handler
\* InventoryItem(product_id=product_id), line 203, with the column defaults of
\* the model: quantity 0, status in_stock.
NewInventoryItem(product_id) ==
    [product_id |-> product_id, quantity |-> 0, status |-> IN_STOCK]

\* The rest of update_inventory: the fields present in the request are written
\* to the row,
UpdateInventoryFields(row, update) == ApplyUpdate(row, update)

\* and the row is added (when new) and committed.
SaveInventoryItem(id, row) == Put(inventory, id, row)

\* PUT /inventory/inventory/{product_id}: the product check, the row of the
\* product (created when there is none), the update and its commit.
update_inventory(s, product_id, update) ==
    /\ Free(s)
    /\ IF product_id \notin DOMAIN products
       THEN /\ Finish(s, PayloadResponse("update_inventory", "NotFound", product_id, update))
            /\ UNCHANGED <<inventory, ids>>
       ELSE IF RowsOf(product_id) = {}
       THEN /\ InventoryIdFree
            /\ inventory' = SaveInventoryItem(ids.inventory,
                    UpdateInventoryFields(NewInventoryItem(product_id), update))
            /\ ids' = [ids EXCEPT !.inventory = @ + 1]
            /\ Finish(s, PayloadResponse("update_inventory", "ok", ids.inventory, update))
       ELSE \E r \in RowsOf(product_id) :
            /\ inventory' = SaveInventoryItem(r, UpdateInventoryFields(inventory[r], update))
            /\ UNCHANGED ids
            /\ Finish(s, PayloadResponse("update_inventory", "ok", r, update))
    /\ UNCHANGED <<categories, products, sales, created_at, sale_items, now>>

\* ---------------------------------------------------------- sale handlers
\* POST /sales/, lines 29-39: the sale header is added and committed.
create_sale_begin(s, items) ==
    /\ Free(s)
    /\ ids.sale <= MaxSales
    /\ sales' = sales \cup {ids.sale}
    /\ created_at' = Put(created_at, ids.sale, now)
    /\ ids' = [ids EXCEPT !.sale = @ + 1]
    /\ req' = [req EXCEPT ![s] =
                 [pc |-> IF items = <<>> THEN "sale_commit" ELSE "sale_item",
                  op |-> "create_sale", id |-> ids.sale, items |-> items, i |-> 1,
                  session |-> Empty, pending |-> <<>>]]
    /\ resp' = NoResponse
    /\ UNCHANGED <<categories, products, inventory, sale_items, now>>

\* The session's view of inventory row r: the object it already holds (with the
\* changes made to it), or else the committed row.
Loaded(s, r) ==
    IF r \in DOMAIN req[s].session
    THEN req[s].session[r]
    ELSE [read |-> inventory[r].quantity, quantity |-> inventory[r].quantity,
          status |-> inventory[r].status, status_set |-> FALSE]

\* Lines 69-72: whether the branch taken names StockStatus.
NamesStockStatus(quantity) == quantity <= 0 \/ quantity < LowStockThreshold

\* Mutant of Decrement: the stock goes down by one per line item.
DecrementByOne(row, quantity) ==
    [row EXCEPT !.quantity = @ - 1]

\* Lines 68-72, on the loaded row: the decrement and the status branches.
Decrement(row, quantity) ==
    LET q == row.quantity - quantity IN
    [row EXCEPT !.quantity = q,
                !.status = IF q <= 0 THEN OUT_OF_STOCK
                           ELSE IF q < LowStockThreshold THEN LOW_STOCK ELSE @,
                !.status_set = @ \/ NamesStockStatus(q)]

\* Mutant of Flush: the commit subtracts what the request took from the
\* quantity the store holds (UPDATE ... SET quantity = quantity - n).
FlushRelative(session) ==
    [r \in DOMAIN inventory |->
        IF r \in DOMAIN session
        THEN [inventory[r] EXCEPT
                 !.quantity = @ - (session[r].read - session[r].quantity)]
        ELSE inventory[r]]

\* The rows the session changed that a commit writes: an UPDATE by primary key
\* of the changed columns.
Flush(session) ==
    [r \in DOMAIN inventory |->
        IF r \in DOMAIN session
        THEN [inventory[r] EXCEPT
                 !.quantity = session[r].quantity,
                 !.status = IF session[r].status_set THEN session[r].status ELSE @]
        ELSE inventory[r]]

\* A changed row that another request deleted: the UPDATE matches no row and
\* the commit fails.
Stale(session) == ~(DOMAIN session \subseteq DOMAIN inventory)

\* For each row the request changed: the quantity it read, the quantity the
\* store held when the request ended, and the quantity the request computed.
Wrote(session) ==
    [r \in DOMAIN session |->
        [read |-> session[r].read,
         before |-> IF r \in DOMAIN inventory THEN inventory[r].quantity ELSE 0,
         quantity |-> session[r].quantity]]

SaleDone(s, outcome, failed) ==
    Finish(s, Put(SaleResponse("create_sale", outcome, req[s].id, req[s].items, failed,
                               Wrote(req[s].session)),
                  "at", req[s].i))

\* The exception leaves the handler: the session is closed without a commit,
\* what it held is discarded, and what was committed before (the header) stays.
Rollback(s, failed) ==
    /\ SaleDone(s, "ServerError", failed)
    /\ UNCHANGED <<inventory, sales, created_at, sale_items>>

\* db.delete(db_sale); db.commit() of lines 46-47 and 53-54.  The commit writes
\* everything the session holds: the sale items added and the inventory rows
\* decremented for the earlier items, and the delete of the header.
\* sale_items.sale_id references sales.id and is not nullable: with sale items
\* to write, an enforcing store rejects the commit.
Abort(s, failed) ==
    \E enforced \in Enforcement :
    IF (req[s].pending # <<>> /\ enforced) \/ Stale(req[s].session)
    THEN Rollback(s, failed)
    ELSE /\ sales' = sales \ {req[s].id}
         /\ created_at' = Drop(created_at, {req[s].id})
         /\ sale_items' = sale_items \o req[s].pending
         /\ inventory' = Flush(req[s].session)
         /\ SaleDone(s, failed, failed)

\* The stock check of line 52 on the loaded row.
Insufficient(row, quantity) == row.quantity < quantity

\* POST /sales/, lines 42-72: one pass of the loop, on line item i.
create_sale_item(s) ==
    /\ req[s].pc = "sale_item"
    /\ LET item == req[s].items[req[s].i] IN
       IF item.product_id \notin DOMAIN products
       THEN Abort(s, "NotFound")
       ELSE IF RowsOf(item.product_id) = {}
       THEN Abort(s, "InsufficientStock")
       ELSE \E r \in RowsOf(item.product_id) :
            IF Insufficient(Loaded(s, r), item.quantity)
            THEN Abort(s, "InsufficientStock")
            ELSE IF NamesStockStatus(Loaded(s, r).quantity - item.quantity)
                    /\ ~StockStatusImported
            THEN Rollback(s, "none")
            ELSE /\ req' = [req EXCEPT
                              ![s].session = Put(@, r, Decrement(Loaded(s, r), item.quantity)),
                              ![s].pending = Append(@, [sale_id |-> req[s].id,
                                                        product_id |-> item.product_id,
                                                        quantity |-> item.quantity]),
                              ![s].i = @ + 1,
                              ![s].pc = IF req[s].i = Len(req[s].items)
                                        THEN "sale_commit" ELSE "sale_item"]
                 /\ UNCHANGED <<inventory, sales, created_at, sale_items, resp>>
    /\ UNCHANGED <<categories, products, ids, now>>

\* POST /sales/, line 74: the commit of the sale items and the decrements.
create_sale_commit(s) ==
    /\ req[s].pc = "sale_commit"
    /\ IF Stale(req[s].session)
       THEN Rollback(s, "none")
       ELSE /\ sale_items' = sale_items \o req[s].pending
            /\ inventory' = Flush(req[s].session)
            /\ UNCHANGED <<sales, created_at>>
            /\ SaleDone(s, "ok", "none")
    /\ UNCHANGED <<categories, products, ids, now>>

\* The sale items of a sale, as the relationship Sale.items loads them.
ItemsOf(sale_id) ==
    LET rows == SelectSeq(sale_items, LAMBDA x : x.sale_id = sale_id) IN
    [k \in 1..Len(rows) |-> [product_id |-> rows[k].product_id,
                             quantity |-> rows[k].quantity]]

\* GET /sales/{sale_id}
get_sale(s, sale_id) ==
    /\ Free(s)
    /\ IF sale_id \notin sales
       THEN Finish(s, Response("get_sale", "NotFound", sale_id))
       ELSE Finish(s, SaleResponse("get_sale", "ok", sale_id, ItemsOf(sale_id),
                                   "none", Empty))
    /\ UNCHANGED <<categories, products, inventory, sales, created_at, sale_items, ids,
                   now>>

\* ----------------------------------------------------------- sale listing
\* Dates are day numbers and timestamps are ticks; a day has TicksPerDay ticks.
Dates == 0..(MaxDays - 1)

\* date.max: the last value of the type date.
DateMax == MaxDays - 1

\* The timestamp a date is compared as: the midnight that starts the day.
Midnight(day) == day * TicksPerDay

\* end_date + timedelta(days=1), line 96; a result past date.max raises
\* OverflowError.
Overflows(end_date) == end_date + 1 > DateMax

\* Mutant of Filtered: the end date is compared as it is, without the day
\* added to it.
FilteredBeforeEndDate(query) ==
    {id \in sales :
        /\ "start_date" \in query.fields => created_at[id] >= Midnight(query.start_date)
        /\ "end_date" \in query.fields => created_at[id] < Midnight(query.end_date)}

\* Lines 92-97: the filters of the query, on the rows of table sales.
Filtered(query) ==
    {id \in sales :
        /\ "start_date" \in query.fields => created_at[id] >= Midnight(query.start_date)
        /\ "end_date" \in query.fields => created_at[id] < Midnight(query.end_date + 1)}

\* order_by(Sale.created_at.desc()): the rows in an order of descending
\* created_at (rows of one timestamp come in either order).
OrderByCreatedAtDesc(S) ==
    {rows \in [1..Cardinality(S) -> S] :
        /\ \A j, k \in DOMAIN rows : rows[j] = rows[k] => j = k
        /\ \A k \in 1..(Cardinality(S) - 1) :
              created_at[rows[k]] >= created_at[rows[k + 1]]}

\* offset(skip).limit(limit)
Page(rows, skip, limit) ==
    SubSeq(rows, skip + 1, IF skip + limit < Len(rows) THEN skip + limit ELSE Len(rows))

\* The response of get_sales: the query of the request and the rows returned.
ListResponse(outcome, query, rows) ==
    [op |-> "get_sales", outcome |-> outcome, id |-> 0, items |-> rows,
     failed |-> "none", wrote |-> Empty, query |-> query]

\* GET /sales/
get_sales(s, query) ==
    /\ Free(s)
    /\ IF "end_date" \in query.fields /\ Overflows(query.end_date)
       THEN Finish(s, ListResponse("ServerError", query, <<>>))
       ELSE \E rows \in OrderByCreatedAtDesc(Filtered(query)) :
               Finish(s, ListResponse("ok", query,
                   Page([k \in DOMAIN rows |->
                            [id |-> rows[k], created_at |-> created_at[rows[k]]]],
                        query.skip, query.limit)))
    /\ UNCHANGED <<categories, products, inventory, sales, created_at, sale_items, ids,
                   now>>

\* Time passes.
Tick ==
    /\ now < MaxDays * TicksPerDay - 1
    /\ now' = now + 1
    /\ UNCHANGED <<categories, products, inventory, sales, created_at, sale_items, ids,
                   req, resp>>

\* ------------------------------------------------------------ the requests
\* A partial update: the fields the request carries, with their values (a field
\* the request does not carry has no value to read).
Updates(fields, values) ==
    {[f \in pair[1] \cup {"fields"} |-> IF f = "fields" THEN pair[1] ELSE pair[2][f]] :
        pair \in (SUBSET fields) \X values}

Texts == {"a", "b"}

CategoryUpdates == Updates({"name", "description"}, [name : Texts, description : Texts])

ProductInputs == [category_id : 1..MaxCategories, name : Texts]

ProductUpdates ==
    Updates({"category_id", "name"}, [category_id : 1..MaxCategories, name : Texts])

InventoryUpdates ==
    Updates({"quantity", "status"}, [quantity : {10}, status : {LOW_STOCK}])

\* Quantities a stock update sets; InventoryItemUpdate.quantity is any integer.
StockLevels == {-1, 3, 10, 12}

StockUpdates(quantities) == {[fields |-> {"quantity"}, quantity |-> q] : q \in quantities}

\* Quantities a line item asks for; SaleItemBase.quantity is greater than 0.
SaleQuantities == {3, 7}

LineItems == [product_id : 1..MaxProducts, quantity : SaleQuantities]

ItemLists == UNION {[1..n -> LineItems] : n \in 0..MaxItems}

\* The queries of a sale listing: the date filters a request carries, with the
\* default pagination (skip 0, limit 100) or a page of one row.
Queries ==
    {[f \in DOMAIN range \cup {"skip", "limit"} |->
         IF f = "skip" THEN page[1] ELSE IF f = "limit" THEN page[2] ELSE range[f]] :
        range \in Updates({"start_date", "end_date"}, [start_date : Dates, end_date : Dates]),
        page \in {<<0, 100>>, <<1, 1>>}}

\* ------------------------------------------------------ the specifications
\* Catalog: the category, product and inventory handlers, one request at a time.
NextCatalog ==
    \/ \E n \in Texts, d \in Texts : create_category(1, n, d)
    \/ \E c \in 1..MaxCategories, u \in CategoryUpdates : update_category(1, c, u)
    \/ \E p \in ProductInputs : create_product_begin(1, p)
    \/ create_product_inventory(1)
    \/ \E p \in 1..MaxProducts, u \in ProductUpdates : update_product(1, p, u)
    \/ \E p \in 1..MaxProducts : delete_product(1, p)
    \/ \E p \in 1..MaxProducts, u \in InventoryUpdates : update_inventory(1, p, u)

SpecCatalog == Init /\ [][NextCatalog]_vars

\* The stock and sale requests of a product catalog with one category.
Stocking(s, quantities) ==
    \/ create_category(s, "a", "a")
    \/ create_product_begin(s, [category_id |-> 1, name |-> "a"])
    \/ create_product_inventory(s)
    \/ \E p \in 1..MaxProducts : delete_product(s, p)
    \/ \E p \in 1..MaxProducts, u \in StockUpdates(quantities) : update_inventory(s, p, u)

\* Sequential: every request runs to completion before the next one starts.
Next ==
    \/ Stocking(1, StockLevels)
    \/ \E items \in ItemLists : create_sale_begin(1, items)
    \/ create_sale_item(1)
    \/ create_sale_commit(1)

Spec == Init /\ [][Next]_vars

\* Concurrent: the requests of the slots interleave at their commits.
RaceItems == {items \in ItemLists : \A k \in 1..Len(items) : items[k].quantity = 7}

NextConcurrent ==
    \E s \in Slots :
        \/ Stocking(s, {12})
        \/ \E items \in RaceItems : create_sale_begin(s, items)
        \/ create_sale_item(s)
        \/ create_sale_commit(s)
        \/ \E id \in 1..MaxSales : get_sale(s, id)

SpecConcurrent == Init /\ [][NextConcurrent]_vars

\* Listing: sales are created as time passes, and listed.  A line item on a
\* product that does not exist makes a sale that aborts.
ListedItems == {<<>>, <<[product_id |-> 1, quantity |-> 3]>>}

NextListing ==
    \/ Tick
    \/ \E items \in ListedItems : create_sale_begin(1, items)
    \/ create_sale_item(1)
    \/ create_sale_commit(1)
    \/ \E query \in Queries : get_sales(1, query)

SpecListing == Init /\ [][NextListing]_vars

\* ================================================================= claims
\* The threshold rule of the data model: the status a quantity stands for.
ThresholdStatus(quantity) ==
    IF quantity <= 0 THEN OUT_OF_STOCK
    ELSE IF quantity < 5 THEN LOW_STOCK ELSE IN_STOCK

RECURSIVE Requested(_, _)
\* The total quantity the line items ask of a product.
Requested(items, product_id) ==
    IF items = <<>> THEN 0
    ELSE (IF Head(items).product_id = product_id THEN Head(items).quantity ELSE 0)
         + Requested(Tail(items), product_id)

\* The step ends the create_sale request of slot s.
EndsSale(s) ==
    /\ req[s].op = "create_sale"
    /\ req'[s].pc = "idle"
    /\ resp'.op = "create_sale"
    /\ resp'.id = req[s].id

\* C1: a sale request in which a line item names a missing product or asks for
\* more than the stock ends with no sale header, no sale item of it and the
\* inventory as it was (requests run one after another: the inventory at the
\* last step of the request is the inventory before the request).
C1_FullAbort ==
    [][(EndsSale(1) /\ resp'.failed # "none")
          => /\ resp'.id \notin sales'
             /\ \A k \in 1..Len(sale_items') : sale_items'[k].sale_id # resp'.id
             /\ inventory' = inventory]_vars

\* C2: a sale that commits takes from every inventory row exactly the total its
\* line items ask of the row's product, and nothing from the other rows.
C2_CommitDecrements ==
    [][(EndsSale(1) /\ resp'.outcome = "ok")
          => /\ DOMAIN inventory' = DOMAIN inventory
             /\ \A r \in DOMAIN inventory :
                   /\ inventory'[r].product_id = inventory[r].product_id
                   /\ inventory'[r].quantity =
                        inventory[r].quantity
                        - Requested(req[1].items, inventory[r].product_id)]_vars

\* A committed sale with two line items on one product.
C2_Witness ==
    /\ resp.op = "create_sale"
    /\ resp.outcome = "ok"
    /\ Len(resp.items) = 2
    /\ resp.items[1].product_id = resp.items[2].product_id
    /\ resp.items[1].product_id \in DOMAIN products

\* C3: after a sale commits, the status of every row of a sold product is the
\* threshold rule applied to the new quantity.
C3_StatusAfterSale ==
    (resp.op = "create_sale" /\ resp.outcome = "ok")
        => \A k \in 1..Len(resp.items) :
              \A r \in RowsOf(resp.items[k].product_id) :
                 inventory[r].status = ThresholdStatus(inventory[r].quantity)

\* C4: no inventory row has a negative quantity.
C4_QuantityNonNegative == \A r \in DOMAIN inventory : inventory[r].quantity >= 0

\* C5: whenever get_sale returns a sale whose create_sale request is still
\* running, it returns the sale with all the line items of that request.
C5_SaleVisibleWithItems ==
    (resp.op = "get_sale" /\ resp.outcome = "ok")
        => \A s \in Slots :
              (req[s].op = "create_sale" /\ req[s].id = resp.id)
                 => resp.items = req[s].items

\* The step commits the sale of slot s (line 74).
CommitsSale(s) == EndsSale(s) /\ req[s].pc = "sale_commit" /\ resp'.outcome = "ok"

\* A row whose quantity in the store went below what the request takes from it
\* between the request's read and its commit: another sale took the stock.
Raced(w) == w.before < w.read /\ w.before < w.read - w.quantity

\* C6, as stated: when two sales race for the stock of a row, the second commit
\* leaves the persisted quantity negative.
C6_RaceGoesNegative ==
    [][\A s \in Slots :
          CommitsSale(s)
             => \A r \in DOMAIN resp'.wrote :
                   Raced(resp'.wrote[r]) => inventory'[r].quantity < 0]_vars

RECURSIVE Taken(_, _, _)
\* What the rows R of the store lost against the quantities the request read.
Taken(R, wrote, store) ==
    IF R = {} THEN 0
    ELSE LET r == CHOOSE x \in R : TRUE IN
         (wrote[r].read - store[r].quantity) + Taken(R \ {r}, wrote, store)

\* C6, amended: a sale that commits writes to every row it took from the
\* quantity it read less what it took, whatever the store holds by then: the
\* quantity it leaves is never negative, and a decrement committed meanwhile
\* by another sale is lost.
C6_RaceLosesUpdate ==
    [][\A s \in Slots :
          CommitsSale(s)
             => /\ \A r \in DOMAIN resp'.wrote :
                      /\ inventory'[r].quantity >= 0
                      /\ inventory'[r].quantity < resp'.wrote[r].read
                /\ \A p \in 1..MaxProducts :
                      Taken({r \in DOMAIN resp'.wrote : inventory'[r].product_id = p},
                            resp'.wrote, inventory')
                        = Requested(req[s].items, p)]_vars

\* A sale committed over the decrement of a sale that raced it.
C6_Witness ==
    /\ resp.op = "create_sale"
    /\ resp.outcome = "ok"
    /\ \E r \in DOMAIN resp.wrote :
          /\ Raced(resp.wrote[r])
          /\ r \in DOMAIN inventory
          /\ inventory[r].quantity = resp.wrote[r].quantity
          /\ inventory[r].quantity >= 0

\* C7: a create_product that succeeds leaves an inventory row of the new
\* product with quantity 0 and status out_of_stock; one that fails for its
\* category creates no product and no inventory row.
C7_CreateProduct ==
    [][resp'.op = "create_product"
          => /\ resp'.outcome = "ok"
                => /\ resp'.id \in DOMAIN products'
                   /\ \E r \in DOMAIN inventory' :
                         /\ inventory'[r].product_id = resp'.id
                         /\ inventory'[r].quantity = 0
                         /\ inventory'[r].status = "out_of_stock"
             /\ resp'.outcome = "NotFound"
                => products' = products /\ inventory' = inventory]_vars

C7_Witness ==
    /\ resp.op = "create_product"
    /\ resp.outcome = "ok"
    /\ resp.id = 2
    /\ Cardinality(RowsOf(2)) = 1

\* The fields of an updated row: those of the request hold its values, the
\* others the values they had.
Partial(old, new, update) ==
    \A f \in DOMAIN old :
        new[f] = IF f \in update.fields THEN update[f] ELSE old[f]

\* The rows of a table other than row id are as they were.
OthersKept(old, new, id) ==
    /\ DOMAIN new = DOMAIN old
    /\ \A x \in DOMAIN old \ {id} : new[x] = old[x]

C9_OneRowPerProduct ==
    \A r1, r2 \in DOMAIN inventory :
        inventory[r1].product_id = inventory[r2].product_id => r1 = r2

\* C10: create_product, and update_product with a category_id, end with
\* NotFound when the category does not exist, and change nothing: a product is
\* created or updated only under a category that exists.
C10_CategoryNotFound ==
    [][/\ (Idle(1) /\ req'[1].op = "create_product")
             => products'[req'[1].id].category_id \in DOMAIN categories
       /\ resp'.op = "create_product"
             => /\ resp'.outcome = "NotFound" => resp'.items[1].category_id \notin DOMAIN categories
                /\ resp'.outcome = "NotFound" => UNCHANGED <<categories, products, inventory>>
       /\ (resp'.op = "update_product" /\ resp'.id \in DOMAIN products
             /\ "category_id" \in resp'.items[1].fields
             /\ resp'.items[1].category_id \notin DOMAIN categories)
             => /\ resp'.outcome = "NotFound"
                /\ UNCHANGED <<categories, products, inventory>>]_vars

\* An update of a product that exists, refused for its category.
C10_Witness ==
    /\ resp.op = "update_product"
    /\ resp.outcome = "NotFound"
    /\ resp.id \in DOMAIN products
    /\ resp.items[1].fields = {"category_id", "name"}
    /\ resp.items[1].name # products[resp.id].name

\* The sales of the store a listing with these dates is to return.
InRange(query) ==
    {id \in sales :
        /\ created_at[id] \div TicksPerDay <= query.end_date
        /\ "start_date" \in query.fields =>
              created_at[id] \div TicksPerDay >= query.start_date}

\* The rows are all the sales in the range of the query, latest first.
Lists(rows, query) ==
    /\ {rows[k].id : k \in DOMAIN rows} = InRange(query)
    /\ Len(rows) = Cardinality(InRange(query))
    /\ \A k \in DOMAIN rows : rows[k].created_at = created_at[rows[k].id]
    /\ \A j, k \in DOMAIN rows : j < k => rows[j].created_at >= rows[k].created_at

\* A listing with an end date D that has a day D+1, whose page holds every row.
WholeListing ==
    /\ resp.op = "get_sales"
    /\ "end_date" \in resp.query.fields
    /\ resp.query.end_date + 1 \in Dates
    /\ resp.query.skip = 0
    /\ resp.query.limit >= Cardinality(sales)

C12_StatusReflectsQuantity ==
    \A r \in DOMAIN inventory :
        /\ inventory[r].quantity = 0 => inventory[r].status = OUT_OF_STOCK
        /\ (0 < inventory[r].quantity /\ inventory[r].quantity < 5)
              => inventory[r].status = LOW_STOCK
        /\ inventory[r].quantity >= 5 => inventory[r].status = IN_STOCK

\* Line item k of the request fails: its product is missing, or has no
\* inventory row, or has less stock left by the items before it than it asks.
Fails(items, k) ==
    LET p == items[k].product_id IN
    \/ p \notin DOMAIN products
    \/ \A r \in RowsOf(p) :
          inventory[r].quantity - Requested(SubSeq(items, 1, k - 1), p) < items[k].quantity

\* The error of a failing line item: the missing product comes first.
ErrorOf(item) ==
    IF item.product_id \notin DOMAIN products THEN "NotFound" ELSE "InsufficientStock"

\* C13: a sale request ends with the error of its first failing line item,
\* NotFound for a missing product and InsufficientStock for a missing row or a
\* short stock, naming that item, with no sale item of the items from it on;
\* a request none of whose items fails (an item may ask for exactly what is
\* left) succeeds.
C13_FirstFailingItem ==
    [][EndsSale(1)
          => LET items == req[1].items
                 failing == {k \in 1..Len(items) : Fails(items, k)}
             IN IF failing = {}
                THEN resp'.outcome = "ok"
                ELSE LET first == CHOOSE k \in failing : \A j \in failing : k <= j IN
                     /\ resp'.outcome = ErrorOf(items[first])
                     /\ resp'.at = first
                     /\ Len(sale_items') - Len(sale_items) < first]_vars

\* What holds of the errors that are reported: the error is that of the first
\* failing line item.
ErrorIsOfFirstFailing ==
    [][(EndsSale(1) /\ resp'.outcome \in {"NotFound", "InsufficientStock"})
          => LET items == req[1].items IN
             /\ Fails(items, resp'.at)
             /\ \A j \in 1..(resp'.at - 1) : ~Fails(items, j)
             /\ resp'.outcome = ErrorOf(items[resp'.at])]_vars

RECURSIVE Stock(_, _)
\* The quantity the rows R of an inventory table hold together.
Stock(inv, R) ==
    IF R = {} THEN 0
    ELSE LET r == CHOOSE x \in R : TRUE IN inv[r].quantity + Stock(inv, R \ {r})

\* The stock of a product and the quantity its persisted sale items record.
StockAndSold(inv, items, product_id) ==
    Stock(inv, {r \in DOMAIN inv : inv[r].product_id = product_id})
    + Requested(items, product_id)

\* C14: a sale request, committed or aborted, takes from the persisted stock of
\* a product exactly what the sale items it persists record: the stock a
\* product was given, less its persisted stock, is at all times the total of
\* its persisted sale items.
C14_NoOverselling ==
    [][\A s \in Slots :
          EndsSale(s)
             => \A p \in 1..MaxProducts :
                   StockAndSold(inventory', sale_items', p)
                     = StockAndSold(inventory, sale_items, p)]_vars

====
